---- MODULE Spec2Model ----
(***************************************************************************)
(* Model of the Excel diff engine of src/app.py: compare_values,           *)
(* compare_dataframes (header merge, key-column and positional row         *)
(* matching, per-sheet summary) and compare_excel_files (key-column        *)
(* parsing, sheet selection, workbook summary).                            *)
(*                                                                         *)
(* A Python str is a sequence of characters; a character is a one-token    *)
(* TLA+ string ("sup2" stands for U+00B2, SUPERSCRIPT TWO).  An            *)
(* Optional[T] is <<>> for None and <<x>> for the value x.  A DataFrame is *)
(* a record [columns, data] whose data rows all have Len(columns) cells.   *)
(* A dict is the sequence of its [key, value] items in insertion order.    *)
(***************************************************************************)
EXTENDS Integers, Sequences, FiniteSets, TLC

VARIABLES df1, df2, key_column, case_sensitive, result, swapped,
          sheets1, sheets2, sheet_name, key_spec, wb_case_sensitive, response,
          pc

vars == <<df1, df2, key_column, case_sensitive, result, swapped,
          sheets1, sheets2, sheet_name, key_spec, wb_case_sensitive, response,
          pc>>

df_vars == <<df1, df2, key_column, case_sensitive, result, swapped>>
wb_vars == <<sheets1, sheets2, sheet_name, key_spec, wb_case_sensitive, response>>

(***************************************************************************)
(* Bounds of the explored inputs.                                          *)
(***************************************************************************)
MaxRows == 3
MaxCols == 2
MaxCells == 4
MaxPairCells == 6
MaxSheetRows == 1
MaxSheetCols == 2
MaxSheetCells == 2
MaxWorkbookCells == 3
MaxHeaderRows == 1
MaxHeaderPairCells == 2

None == <<>>
Some(x) == <<x>>

Max(a, b) == IF a >= b THEN a ELSE b

(***************************************************************************)
(* Characters and str methods.                                             *)
(***************************************************************************)
Ord(c) ==
    CASE c = " " -> 32
      [] c = "-" -> 45
      [] c = "0" -> 48
      [] c = "1" -> 49
      [] c = "2" -> 50
      [] c = "3" -> 51
      [] c = "A" -> 65
      [] c = "B" -> 66
      [] c = "C" -> 67
      [] c = "L" -> 76
      [] c = "S" -> 83
      [] c = "T" -> 84
      [] c = "a" -> 97
      [] c = "b" -> 98
      [] c = "c" -> 99
      [] c = "l" -> 108
      [] c = "sup2" -> 178

char_lower(c) ==
    CASE c = "A" -> "a"
      [] c = "B" -> "b"
      [] c = "C" -> "c"
      [] c = "S" -> "s"
      [] c = "T" -> "t"
      [] OTHER -> c

char_upper(c) ==
    CASE c = "a" -> "A"
      [] c = "b" -> "B"
      [] c = "c" -> "C"
      [] c = "l" -> "L"
      [] OTHER -> c

char_isspace(c) == c = " "
char_isdecimal(c) == c \in {"0", "1", "2", "3"}
char_isdigit(c) == char_isdecimal(c) \/ c = "sup2"
char_isalpha(c) == c \in {"A", "B", "C", "S", "T", "L", "a", "b", "c", "l", "s", "t"}

str_lower(s) == [i \in 1..Len(s) |-> char_lower(s[i])]
str_upper(s) == [i \in 1..Len(s) |-> char_upper(s[i])]

RECURSIVE str_lstrip(_)
str_lstrip(s) ==
    IF s # <<>> /\ char_isspace(Head(s)) THEN str_lstrip(Tail(s)) ELSE s

RECURSIVE str_rstrip(_)
str_rstrip(s) ==
    IF s # <<>> /\ char_isspace(s[Len(s)])
    THEN str_rstrip(SubSeq(s, 1, Len(s) - 1))
    ELSE s

str_strip(s) == str_rstrip(str_lstrip(s))

str_isdigit(s) == Len(s) > 0 /\ \A i \in 1..Len(s) : char_isdigit(s[i])
str_isalpha(s) == Len(s) > 0 /\ \A i \in 1..Len(s) : char_isalpha(s[i])

RECURSIVE decimal_value(_)
decimal_value(s) ==
    IF s = <<>> THEN 0
    ELSE 10 * decimal_value(SubSeq(s, 1, Len(s) - 1)) + (Ord(s[Len(s)]) - 48)

\* int(s) for a string of digit characters: the number, or ValueError when a
\* character is a digit that is not a decimal digit.
str_int(s) ==
    IF \A i \in 1..Len(s) : char_isdecimal(s[i])
    THEN [ok |-> TRUE, value |-> decimal_value(s)]
    ELSE [ok |-> FALSE, value |-> 0]

\* s < t in Python's ordering of str (code points, then length).
RECURSIVE str_less(_, _)
str_less(s, t) ==
    IF t = <<>> THEN FALSE
    ELSE IF s = <<>> THEN TRUE
    ELSE IF Ord(Head(s)) # Ord(Head(t)) THEN Ord(Head(s)) < Ord(Head(t))
    ELSE str_less(Tail(s), Tail(t))

(***************************************************************************)
(* dict in insertion order.                                                *)
(***************************************************************************)
dict_has(d, k) == \E i \in 1..Len(d) : d[i].key = k
dict_get(d, k) == d[CHOOSE i \in 1..Len(d) : d[i].key = k].value
dict_keys(d) == [i \in 1..Len(d) |-> d[i].key]
\* variant: an existing key keeps its first value
dict_set_first_wins(d, k, v) ==
    IF dict_has(d, k) THEN d ELSE Append(d, [key |-> k, value |-> v])

dict_set(d, k, v) ==
    IF dict_has(d, k)
    THEN [i \in 1..Len(d) |-> IF d[i].key = k THEN [key |-> k, value |-> v] ELSE d[i]]
    ELSE Append(d, [key |-> k, value |-> v])

RECURSIVE dict_fromkeys(_, _)
dict_fromkeys(ks, acc) ==
    IF ks = <<>> THEN acc
    ELSE dict_fromkeys(Tail(ks),
                       IF \E i \in 1..Len(acc) : acc[i] = Head(ks)
                       THEN acc ELSE Append(acc, Head(ks)))

(***************************************************************************)
(* src/app.py: safe_str, compare_values.                                   *)
(***************************************************************************)
safe_str(val) == str_strip(val)

\* variant: the case_sensitive flag is ignored
compare_values_ignores_flag(val1, val2, cs) ==
    str_lower(val1) = str_lower(val2)

\* variant: only the original value is case-folded
compare_values_fold_one_side(val1, val2, cs) ==
    IF cs THEN val1 = val2 ELSE str_lower(val1) = val2

compare_values(val1, val2, cs) ==
    IF cs THEN val1 = val2 ELSE str_lower(val1) = str_lower(val2)

(***************************************************************************)
(* src/app.py: compare_dataframes.                                         *)
(***************************************************************************)
df_len(df) == Len(df.data)

headers_of(df) ==
    IF Len(df.columns) > 0
    THEN [i \in 1..Len(df.columns) |-> safe_str(df.columns[i])]
    ELSE <<>>

\* variant: the label of the original file is preferred
merge_headers_original_first(headers1, headers2) ==
    [i \in 1..Max(Len(headers1), Len(headers2)) |->
        LET h1 == IF i - 1 < Len(headers1) THEN headers1[i] ELSE <<>>
            h2 == IF i - 1 < Len(headers2) THEN headers2[i] ELSE <<>>
        IN IF h1 # <<>> THEN h1 ELSE h2]

merge_headers(headers1, headers2) ==
    [i \in 1..Max(Len(headers1), Len(headers2)) |->
        LET h1 == IF i - 1 < Len(headers1) THEN headers1[i] ELSE <<>>
            h2 == IF i - 1 < Len(headers2) THEN headers2[i] ELSE <<>>
        IN IF h2 # <<>> THEN h2 ELSE h1]

empty_result(merged_headers) ==
    [headers |-> merged_headers,
     rows |-> <<>>,
     summary |-> [total_rows |-> 0, added |-> 0, deleted |-> 0,
                  modified |-> 0, unchanged |-> 0]]

\* row_idx is 0-based, as in the source
get_row_values(df, row_idx, cols) ==
    IF row_idx >= df_len(df)
    THEN [i \in 1..cols |-> <<>>]
    ELSE [i \in 1..cols |->
            IF i - 1 < Len(df.columns) THEN safe_str(df.data[row_idx + 1][i])
            ELSE <<>>]

\* variant: rows with an empty key are indexed too
RECURSIVE build_index_keeps_empty_keys(_, _, _, _, _)
build_index_keeps_empty_keys(df, key_col, max_cols, idx, index) ==
    IF idx >= df_len(df) THEN index
    ELSE LET row == get_row_values(df, idx, max_cols)
             key == IF key_col < Len(row) THEN row[key_col + 1] ELSE <<>>
         IN build_index_keeps_empty_keys(df, key_col, max_cols, idx + 1,
                        dict_set(index, key, [idx |-> idx, row |-> row]))

RECURSIVE build_index(_, _, _, _, _)
build_index(df, key_col, max_cols, idx, index) ==
    IF idx >= df_len(df) THEN index
    ELSE LET row == get_row_values(df, idx, max_cols)
             key == IF key_col < Len(row) THEN row[key_col + 1] ELSE <<>>
         IN build_index(df, key_col, max_cols, idx + 1,
                        IF key # <<>>
                        THEN dict_set(index, key, [idx |-> idx, row |-> row])
                        ELSE index)

\* variant: old_value of a modified cell taken from the compare row
compare_cells_old_value_from_compare(row1, row2, max_cols, cs) ==
    [c \in 1..max_cols |->
        LET v1 == IF c - 1 < Len(row1) THEN row1[c] ELSE <<>>
            v2 == IF c - 1 < Len(row2) THEN row2[c] ELSE <<>>
        IN IF compare_values(v1, v2, cs)
           THEN [value |-> v2, old_value |-> None, status |-> "same"]
           ELSE [value |-> v2, old_value |-> Some(v2), status |-> "modified"]]

compare_cells(row1, row2, max_cols, cs) ==
    [c \in 1..max_cols |->
        LET v1 == IF c - 1 < Len(row1) THEN row1[c] ELSE <<>>
            v2 == IF c - 1 < Len(row2) THEN row2[c] ELSE <<>>
        IN IF compare_values(v1, v2, cs)
           THEN [value |-> v2, old_value |-> None, status |-> "same"]
           ELSE [value |-> v2, old_value |-> Some(v1), status |-> "modified"]]

one_sided_cells(row, status) ==
    [c \in 1..Len(row) |-> [value |-> row[c], old_value |-> None, status |-> status]]

\* variant: a deleted row is counted as added
summary_field_deleted_as_added(status) ==
    CASE status = "added" -> "added"
      [] status = "deleted" -> "added"
      [] status = "modified" -> "modified"
      [] status = "same" -> "unchanged"

summary_field(status) ==
    CASE status = "added" -> "added"
      [] status = "deleted" -> "deleted"
      [] status = "modified" -> "modified"
      [] status = "same" -> "unchanged"

\* result["rows"].append({...}); result["summary"][...] += 1
add_row(res, status, cells) ==
    [res EXCEPT !.rows = Append(@, [status |-> status, cells |-> cells]),
                !.summary[summary_field(status)] = @ + 1]

\* variant: has_diff is overwritten by every cell instead of being sticky
both_sides_row_last_cell(res, row1, row2, max_cols, cs) ==
    LET cells == compare_cells(row1, row2, max_cols, cs)
        has_diff == Len(cells) > 0 /\ cells[Len(cells)].status = "modified"
    IN IF has_diff THEN add_row(res, "modified", cells)
       ELSE add_row(res, "same", cells)

both_sides_row(res, row1, row2, max_cols, cs) ==
    LET cells == compare_cells(row1, row2, max_cols, cs)
        has_diff == \E c \in 1..Len(cells) : cells[c].status = "modified"
    IN IF has_diff THEN add_row(res, "modified", cells)
       ELSE add_row(res, "same", cells)

RECURSIVE key_loop(_, _, _, _, _, _)
key_loop(all_keys, index1, index2, max_cols, cs, res) ==
    IF all_keys = <<>> THEN res
    ELSE LET key == Head(all_keys)
             in1 == dict_has(index1, key)
             in2 == dict_has(index2, key)
             next ==
                IF in1 /\ in2
                THEN both_sides_row(res, dict_get(index1, key).row,
                                    dict_get(index2, key).row, max_cols, cs)
                ELSE IF in1
                THEN add_row(res, "deleted",
                             one_sided_cells(dict_get(index1, key).row, "deleted"))
                ELSE add_row(res, "added",
                             one_sided_cells(dict_get(index2, key).row, "added"))
         IN key_loop(Tail(all_keys), index1, index2, max_cols, cs, next)

\* variant: the keys of the compare table come first
key_all_keys_compare_first(index1, index2) ==
    dict_fromkeys(dict_keys(index2) \o dict_keys(index1), <<>>)

key_all_keys(index1, index2) ==
    dict_fromkeys(dict_keys(index1) \o dict_keys(index2), <<>>)

compare_by_key(d1, d2, key_col, max_cols, cs, res) ==
    LET index1 == build_index(d1, key_col, max_cols, 0, <<>>)
        index2 == build_index(d2, key_col, max_cols, 0, <<>>)
        all_keys == key_all_keys(index1, index2)
        filled == key_loop(all_keys, index1, index2, max_cols, cs, res)
    IN [filled EXCEPT !.summary.total_rows = Len(filled.rows)]

\* variant: the tests of has_row1 and has_row2 are exchanged
RECURSIVE position_loop_sides_exchanged(_, _, _, _, _, _, _)
position_loop_sides_exchanged(d1, d2, row_idx, max_rows, max_cols, cs, res) ==
    IF row_idx >= max_rows THEN res
    ELSE LET has_row1 == row_idx < df_len(d1)
             has_row2 == row_idx < df_len(d2)
             row1 == get_row_values(d1, row_idx, max_cols)
             row2 == get_row_values(d2, row_idx, max_cols)
             next ==
                IF ~has_row2 THEN add_row(res, "added", one_sided_cells(row2, "added"))
                ELSE IF ~has_row1
                THEN add_row(res, "deleted", one_sided_cells(row1, "deleted"))
                ELSE both_sides_row(res, row1, row2, max_cols, cs)
         IN position_loop_sides_exchanged(d1, d2, row_idx + 1, max_rows, max_cols,
                                          cs, next)

RECURSIVE position_loop(_, _, _, _, _, _, _)
position_loop(d1, d2, row_idx, max_rows, max_cols, cs, res) ==
    IF row_idx >= max_rows THEN res
    ELSE LET has_row1 == row_idx < df_len(d1)
             has_row2 == row_idx < df_len(d2)
             row1 == get_row_values(d1, row_idx, max_cols)
             row2 == get_row_values(d2, row_idx, max_cols)
             next ==
                IF ~has_row1 THEN add_row(res, "added", one_sided_cells(row2, "added"))
                ELSE IF ~has_row2
                THEN add_row(res, "deleted", one_sided_cells(row1, "deleted"))
                ELSE both_sides_row(res, row1, row2, max_cols, cs)
         IN position_loop(d1, d2, row_idx + 1, max_rows, max_cols, cs, next)

\* variant: the row count of the compare table alone drives the loop
compare_by_position_compare_rows(d1, d2, max_cols, cs, res) ==
    LET max_rows == df_len(d2)
        filled == position_loop(d1, d2, 0, max_rows, max_cols, cs, res)
    IN [filled EXCEPT !.summary.total_rows = max_rows]

compare_by_position(d1, d2, max_cols, cs, res) ==
    LET max_rows == Max(df_len(d1), df_len(d2))
        filled == position_loop(d1, d2, 0, max_rows, max_cols, cs, res)
    IN [filled EXCEPT !.summary.total_rows = max_rows]

use_key_column(key_col, max_cols) ==
    key_col # None /\ 0 <= key_col[1] /\ key_col[1] < max_cols

compare_dataframes(d1, d2, key_col, cs) ==
    LET headers1 == headers_of(d1)
        headers2 == headers_of(d2)
        max_cols == Max(Len(headers1), Len(headers2))
        res == empty_result(merge_headers(headers1, headers2))
    IN IF use_key_column(key_col, max_cols)
       THEN compare_by_key(d1, d2, key_col[1], max_cols, cs, res)
       ELSE compare_by_position(d1, d2, max_cols, cs, res)

(***************************************************************************)
(* The explored inputs of compare_dataframes.                              *)
(***************************************************************************)
CellValues == { <<" ">>, <<"a">>, <<"A">> }

column_label(i) == << CASE i = 1 -> "A" [] i = 2 -> "B" [] OTHER -> "C" >>

\* the tables with the given cell values whose shape is within the bounds; a
\* table without columns has no rows (pd.DataFrame())
TablesOf(values, max_rows, max_cols, max_cells) ==
    UNION { UNION { { [columns |-> [i \in 1..c |-> column_label(i)], data |-> d] :
                        d \in [1..r -> [1..c -> values]] } :
                    r \in { n \in 0..max_rows : n * c <= max_cells /\ (c = 0 => n = 0) } } :
            c \in 0..max_cols }

Tables == TablesOf(CellValues, MaxRows, MaxCols, MaxCells)

\* no key column, or an index from -1 (the form value "0") to the last column;
\* the last index is out of range for tables with fewer columns
KeyColumns == { None } \cup { Some(k) : k \in (-1)..(MaxCols - 1) }

table_cells(df) == Len(df.data) * Len(df.columns)

empty_df == [columns |-> <<>>, data |-> <<>>]

(***************************************************************************)
(* Specification of compare_dataframes over the explored inputs.           *)
(***************************************************************************)
Init ==
    /\ df1 \in Tables
    /\ df2 \in Tables
    /\ table_cells(df1) + table_cells(df2) <= MaxPairCells
    /\ key_column \in KeyColumns
    /\ case_sensitive \in BOOLEAN
    /\ result = None
    /\ swapped = None
    /\ sheets1 = <<>>
    /\ sheets2 = <<>>
    /\ sheet_name = None
    /\ key_spec = None
    /\ wb_case_sensitive = TRUE
    /\ response = None
    /\ pc = "ready"

\* compare_dataframes(df1, df2, key_column, case_sensitive)
Compare ==
    /\ pc = "ready"
    /\ result' = Some(compare_dataframes(df1, df2, key_column, case_sensitive))
    /\ pc' = "compared"
    /\ UNCHANGED <<df1, df2, key_column, case_sensitive, swapped>>
    /\ UNCHANGED wb_vars

\* compare_dataframes(df2, df1, key_column, case_sensitive)
CompareSwapped ==
    /\ pc = "compared"
    /\ swapped' = Some(compare_dataframes(df2, df1, key_column, case_sensitive))
    /\ pc' = "swapped"
    /\ UNCHANGED <<df1, df2, key_column, case_sensitive, result>>
    /\ UNCHANGED wb_vars

Next == Compare \/ CompareSwapped

Spec == Init /\ [][Next]_vars

(***************************************************************************)
(* Specification of compare_dataframes over tables whose column labels     *)
(* vary: blank, equal or different labels, and header rows of different    *)
(* lengths.                                                                *)
(***************************************************************************)
HeaderValues == { <<" ">>, <<"a">>, <<"b">> }
HeaderDataValues == { <<"a">>, <<"A">> }

HeaderTables ==
    UNION { UNION { { [columns |-> h, data |-> d] :
                        h \in [1..c -> HeaderValues],
                        d \in [1..r -> [1..c -> HeaderDataValues]] } :
                    r \in { n \in 0..MaxHeaderRows : c = 0 => n = 0 } } :
            c \in 0..MaxCols }

InitHeaders ==
    /\ df1 \in HeaderTables
    /\ df2 \in HeaderTables
    /\ table_cells(df1) + table_cells(df2) <= MaxHeaderPairCells
    /\ key_column \in KeyColumns
    /\ case_sensitive \in BOOLEAN
    /\ result = None
    /\ swapped = None
    /\ sheets1 = <<>>
    /\ sheets2 = <<>>
    /\ sheet_name = None
    /\ key_spec = None
    /\ wb_case_sensitive = TRUE
    /\ response = None
    /\ pc = "ready"

NextHeaders == Compare

SpecHeaders == InitHeaders /\ [][NextHeaders]_vars

(***************************************************************************)
(* src/app.py: compare_excel_files.  A workbook (the dict returned by      *)
(* read_excel_file) is a function from its sheet names to DataFrames.      *)
(***************************************************************************)
\* key_col_idx of a key_column form value; ok is FALSE when int() raises
parse_key_column(spec) ==
    IF spec = None \/ spec[1] = <<>>
    THEN [ok |-> TRUE, idx |-> None]
    ELSE LET k == str_upper(str_strip(spec[1]))
         IN IF str_isdigit(k)
            THEN IF str_int(k).ok
                 THEN [ok |-> TRUE, idx |-> Some(str_int(k).value - 1)]
                 ELSE [ok |-> FALSE, idx |-> None]
            ELSE IF Len(k) = 1 /\ str_isalpha(k)
            THEN [ok |-> TRUE, idx |-> Some(Ord(k[1]) - Ord("A"))]
            ELSE [ok |-> TRUE, idx |-> None]

\* the set of names in sheets_to_compare
sheets_to_compare(s1, s2, name) ==
    IF name # None /\ name[1] # <<>> /\ name[1] # <<"a", "l", "l">>
    THEN IF name[1] \in DOMAIN s1 \/ name[1] \in DOMAIN s2 THEN { name[1] } ELSE {}
    ELSE DOMAIN s1 \cup DOMAIN s2

\* variant: sorted(names, reverse=True)
RECURSIVE sorted_descending(_)
sorted_descending(names) ==
    IF names = {} THEN <<>>
    ELSE LET m == CHOOSE x \in names : \A y \in names \ {x} : str_less(y, x)
         IN <<m>> \o sorted_descending(names \ {m})

\* sorted(names)
RECURSIVE sorted(_)
sorted(names) ==
    IF names = {} THEN <<>>
    ELSE LET m == CHOOSE x \in names : \A y \in names \ {x} : str_less(x, y)
         IN <<m>> \o sorted(names \ {m})

sheet_get(sheets, sname) ==
    IF sname \in DOMAIN sheets THEN sheets[sname] ELSE empty_df

RECURSIVE sheet_loop(_, _, _, _, _, _)
sheet_loop(snames, s1, s2, key_col_idx, cs, res) ==
    IF snames = <<>> THEN res
    ELSE LET sname == Head(snames)
             diff == compare_dataframes(sheet_get(s1, sname), sheet_get(s2, sname),
                                        key_col_idx, cs)
             next ==
                [res EXCEPT
                   !.sheets = [n \in DOMAIN @ \cup {sname} |->
                                 IF n = sname THEN diff ELSE @[n]],
                   !.summary.added = @ + diff.summary.added,
                   !.summary.deleted = @ + diff.summary.deleted,
                   !.summary.modified = @ + diff.summary.modified]
         IN sheet_loop(Tail(snames), s1, s2, key_col_idx, cs, next)

compare_excel_files(s1, s2, name, spec, cs) ==
    LET parsed == parse_key_column(spec)
        to_compare == sheets_to_compare(s1, s2, name)
        start == [sheets |-> <<>>,
                  sheet_list |-> sorted(to_compare),
                  summary |-> [total_differences |-> 0, added |-> 0,
                               deleted |-> 0, modified |-> 0]]
        filled == sheet_loop(sorted(to_compare), s1, s2, parsed.idx, cs, start)
    IN IF ~parsed.ok
       THEN [error |-> "ValueError"]
       ELSE [error |-> "",
             body |-> [filled EXCEPT !.summary.total_differences =
                          filled.summary.added + filled.summary.deleted
                          + filled.summary.modified]]

(***************************************************************************)
(* The explored inputs of compare_excel_files.                             *)
(***************************************************************************)
SheetCellValues == { <<>>, <<"a">> }

\* the sheets of the explored workbooks: empty, or with at least one data row
SheetTables ==
    { t \in TablesOf(SheetCellValues, MaxSheetRows, MaxSheetCols, MaxSheetCells) :
        t.columns = <<>> \/ t.data # <<>> }

SheetNames == { <<"S">>, <<"a", "l", "l">> }

Workbooks == UNION { [names -> SheetTables] : names \in SUBSET SheetNames }

RECURSIVE workbook_cells(_, _)
workbook_cells(sheets, names) ==
    IF names = {} THEN 0
    ELSE LET n == CHOOSE x \in names : TRUE
         IN table_cells(sheets[n]) + workbook_cells(sheets, names \ {n})

SheetSelectors ==
    { None, Some(<<>>), Some(<<"a", "l", "l">>), Some(<<"S">>), Some(<<"T">>) }

KeySpecs ==
    { None, Some(<<"0">>), Some(<<"1">>), Some(<<"3">>), Some(<<" ", "b">>),
      Some(<<"a", "b">>), Some(<<"sup2">>) }

InitWorkbook ==
    /\ sheets1 \in Workbooks
    /\ sheets2 \in Workbooks
    /\ workbook_cells(sheets1, DOMAIN sheets1) + workbook_cells(sheets2, DOMAIN sheets2)
          <= MaxWorkbookCells
    /\ sheet_name \in SheetSelectors
    /\ key_spec \in KeySpecs
    /\ wb_case_sensitive \in BOOLEAN
    /\ response = None
    /\ df1 = empty_df
    /\ df2 = empty_df
    /\ key_column = None
    /\ case_sensitive = TRUE
    /\ result = None
    /\ swapped = None
    /\ pc = "request"

\* compare_excel_files(..., sheet_name, key_column, case_sensitive)
CompareExcelFiles ==
    /\ pc = "request"
    /\ response' = Some(compare_excel_files(sheets1, sheets2, sheet_name,
                                            key_spec, wb_case_sensitive))
    /\ pc' = "responded"
    /\ UNCHANGED <<sheets1, sheets2, sheet_name, key_spec, wb_case_sensitive>>
    /\ UNCHANGED df_vars

NextWorkbook == CompareExcelFiles

SpecWorkbook == InitWorkbook /\ [][NextWorkbook]_vars

(***************************************************************************)
(* Vocabulary of the properties, defined on the inputs df1, df2.           *)
(***************************************************************************)
Compared == pc \in {"compared", "swapped"}
Diff == result[1]
SwappedDiff == swapped[1]

MergedColumnCount == Max(Len(df1.columns), Len(df2.columns))
KeyInRange ==
    key_column # None /\ key_column[1] >= 0 /\ key_column[1] < MergedColumnCount
KeyPos == key_column[1] + 1

\* the trimmed value of column c of row r (both 1-based), "" past the last column
TrimmedCell(df, r, c) ==
    IF c <= Len(df.columns) THEN str_strip(df.data[r][c]) ELSE <<>>
TrimmedRow(df, r) == [c \in 1..MergedColumnCount |-> TrimmedCell(df, r, c)]
KeyAt(df, r) == TrimmedCell(df, r, KeyPos)
KeysOf(df) == { KeyAt(df, r) : r \in 1..Len(df.data) } \ { <<>> }
RowKey(row) == row.cells[KeyPos].value

CountStatus(rows, status) ==
    Cardinality({ i \in 1..Len(rows) : rows[i].status = status })
CellStatuses(row) == { row.cells[c].status : c \in 1..Len(row.cells) }

\* row i of the diff exists in the original table / in the compare table
RowInOriginal(i) ==
    IF KeyInRange THEN RowKey(Diff.rows[i]) \in KeysOf(df1) ELSE i <= Len(df1.data)
RowInCompare(i) ==
    IF KeyInRange THEN RowKey(Diff.rows[i]) \in KeysOf(df2) ELSE i <= Len(df2.data)

(***************************************************************************)
(* C1: the summary of a sheet diff counts the rows of each status: added,  *)
(* deleted, modified and unchanged are the numbers of rows with status     *)
(* added, deleted, modified and same, and their sum is len(rows) and       *)
(* total_rows, for every pair of tables and every configuration.           *)
(***************************************************************************)
C1_SummaryPartition ==
    Compared =>
        /\ Diff.summary.added = CountStatus(Diff.rows, "added")
        /\ Diff.summary.deleted = CountStatus(Diff.rows, "deleted")
        /\ Diff.summary.modified = CountStatus(Diff.rows, "modified")
        /\ Diff.summary.unchanged = CountStatus(Diff.rows, "same")
        /\ Diff.summary.added + Diff.summary.deleted + Diff.summary.modified
             + Diff.summary.unchanged = Len(Diff.rows)
        /\ Diff.summary.total_rows = Len(Diff.rows)

C1_Witness ==
    /\ Compared
    /\ KeyInRange
    /\ Diff.summary.deleted = 1
    /\ Diff.summary.added = 1
    /\ Len(Diff.rows) = 2

C1_WitnessOutOfRange ==
    /\ Compared
    /\ key_column # None /\ ~KeyInRange
    /\ Diff.summary.modified = 1
    /\ Diff.summary.unchanged = 1
    /\ Diff.summary.deleted = 1

(***************************************************************************)
(* C2: every diff row has one cell per merged header; a row is modified    *)
(* iff it exists on both sides and some cell is modified, same iff it      *)
(* exists on both sides and no cell is modified; a row only in the compare *)
(* table is added with every cell added, a row only in the original table  *)
(* is deleted with every cell deleted, and an added or deleted row has no  *)
(* modified or same cell.                                                  *)
(***************************************************************************)
C2_RowShape ==
    Compared =>
        \A i \in 1..Len(Diff.rows) :
            LET row == Diff.rows[i]
                both == RowInOriginal(i) /\ RowInCompare(i)
                some_modified == "modified" \in CellStatuses(row)
            IN /\ Len(row.cells) = Len(Diff.headers)
               /\ (row.status = "modified") <=> (both /\ some_modified)
               /\ (row.status = "same") <=> (both /\ ~some_modified)
               /\ (RowInCompare(i) /\ ~RowInOriginal(i)) =>
                     (row.status = "added" /\ CellStatuses(row) \subseteq {"added"})
               /\ (RowInOriginal(i) /\ ~RowInCompare(i)) =>
                     (row.status = "deleted" /\ CellStatuses(row) \subseteq {"deleted"})
               /\ row.status \in {"added", "deleted"} =>
                     CellStatuses(row) \cap {"modified", "same"} = {}
               /\ RowInOriginal(i) \/ RowInCompare(i)

C2_Witness ==
    /\ Compared
    /\ KeyInRange
    /\ Len(df1.columns) < Len(df2.columns)
    /\ \E i \in 1..Len(Diff.rows) :
          /\ Diff.rows[i].status = "modified"
          /\ CellStatuses(Diff.rows[i]) = {"same", "modified"}
    /\ \E i \in 1..Len(Diff.rows) : Diff.rows[i].status = "added"

(***************************************************************************)
(* C3: diffing a table against itself, by position or by any key column    *)
(* (duplicate and empty keys included), case-sensitively or not, yields no *)
(* added, deleted or modified row: added == deleted == modified == 0 and   *)
(* unchanged == total_rows.                                                *)
(***************************************************************************)
C3_SelfDiff ==
    (Compared /\ df1 = df2) =>
        /\ \A i \in 1..Len(Diff.rows) : Diff.rows[i].status = "same"
        /\ Diff.summary.added = 0
        /\ Diff.summary.deleted = 0
        /\ Diff.summary.modified = 0
        /\ Diff.summary.unchanged = Diff.summary.total_rows

C3_Witness ==
    /\ Compared
    /\ df1 = df2
    /\ KeyInRange
    /\ ~case_sensitive
    /\ Len(df1.data) = 3
    /\ Cardinality(KeysOf(df1)) = 1
    /\ \E r \in 1..Len(df1.data) : KeyAt(df1, r) = <<>>
    /\ Diff.summary.unchanged = 1

(***************************************************************************)
(* Pairing of the rows of the diff of (df1, df2) with the rows of the diff *)
(* of (df2, df1): by position, or by key under key-column matching.        *)
(***************************************************************************)
Partners(i) ==
    IF KeyInRange
    THEN { j \in 1..Len(SwappedDiff.rows) :
             RowKey(SwappedDiff.rows[j]) = RowKey(Diff.rows[i]) }
    ELSE { j \in 1..Len(SwappedDiff.rows) : j = i }
Partner(i) == SwappedDiff.rows[CHOOSE j \in Partners(i) : TRUE]

\* added <-> deleted, and value <-> old_value within modified cells
RolesSwapped(a, b) ==
    /\ Len(a.cells) = Len(b.cells)
    /\ a.status = "added" => b.status = "deleted"
    /\ a.status = "deleted" => b.status = "added"
    /\ a.status = "modified" => b.status = "modified"
    /\ \A c \in 1..Len(a.cells) :
          a.cells[c].status = "modified" =>
             /\ b.cells[c].status = "modified"
             /\ b.cells[c].value = a.cells[c].old_value[1]
             /\ b.cells[c].old_value = Some(a.cells[c].value)

(***************************************************************************)
(* C4 as stated: comparing (B, A) gives the diff of (A, B) with added and  *)
(* deleted exchanged, value and old_value of modified cells exchanged, and *)
(* every same row unchanged (same status and same cell values), also when  *)
(* case_sensitive is false.                                                *)
(***************************************************************************)
C4_SwapSymmetry ==
    pc = "swapped" =>
        /\ Len(SwappedDiff.rows) = Len(Diff.rows)
        /\ \A i \in 1..Len(Diff.rows) :
              /\ Cardinality(Partners(i)) = 1
              /\ RolesSwapped(Diff.rows[i], Partner(i))
              /\ Diff.rows[i].status = "same" => Partner(i) = Diff.rows[i]

(***************************************************************************)
(* C4 amended: as stated, except that a same row keeps its status and its  *)
(* cell statuses while its cell values are identical only when             *)
(* case_sensitive is true; when it is false they are equal after case      *)
(* folding (each diff reports the spelling of its own compare table).      *)
(***************************************************************************)
C4_SwapSymmetryUpToCase ==
    pc = "swapped" =>
        /\ Len(SwappedDiff.rows) = Len(Diff.rows)
        /\ \A i \in 1..Len(Diff.rows) :
              /\ Cardinality(Partners(i)) = 1
              /\ RolesSwapped(Diff.rows[i], Partner(i))
              /\ Diff.rows[i].status = "same" =>
                    /\ Partner(i).status = "same"
                    /\ \A c \in 1..Len(Diff.rows[i].cells) :
                          LET x == Diff.rows[i].cells[c]
                              y == Partner(i).cells[c]
                          IN /\ y.status = "same"
                             /\ y.old_value = None
                             /\ str_lower(y.value) = str_lower(x.value)
                             /\ case_sensitive => y.value = x.value

C4_Witness ==
    /\ pc = "swapped"
    /\ KeyInRange
    /\ ~case_sensitive
    /\ \E i \in 1..Len(Diff.rows) : Diff.rows[i].status = "deleted"
    /\ \E i \in 1..Len(Diff.rows) :
          /\ Diff.rows[i].status = "same"
          /\ Partner(i) # Diff.rows[i]

(***************************************************************************)
(* Vocabulary of key-column matching, defined on the inputs.               *)
(***************************************************************************)
AllKeys == KeysOf(df1) \cup KeysOf(df2)
RowsWithKey(rows, k) == { i \in 1..Len(rows) : RowKey(rows[i]) = k }
LastWithKey(df, k) ==
    CHOOSE r \in 1..Len(df.data) :
        /\ KeyAt(df, r) = k
        /\ \A q \in 1..Len(df.data) : KeyAt(df, q) = k => q <= r

\* the distinct non-empty keys of rows 1..n of df, in order of first appearance
RECURSIVE FirstAppearances(_, _)
FirstAppearances(df, n) ==
    IF n = 0 THEN <<>>
    ELSE LET k == KeyAt(df, n)
         IN IF k = <<>> \/ \E q \in 1..(n - 1) : KeyAt(df, q) = k
            THEN FirstAppearances(df, n - 1)
            ELSE Append(FirstAppearances(df, n - 1), k)

RECURSIVE Without(_, _)
Without(ks, drop) ==
    IF ks = <<>> THEN <<>>
    ELSE IF Head(ks) \in drop THEN Without(Tail(ks), drop)
    ELSE <<Head(ks)>> \o Without(Tail(ks), drop)

(***************************************************************************)
(* C7: under key-column matching a row whose trimmed key is empty (also a  *)
(* row of a table without a column at the key index) produces no diff row  *)
(* and is counted nowhere: the diff has one row per distinct non-empty key *)
(* occurring in A or B, none of them with an empty key.                    *)
(***************************************************************************)
C7_EmptyKeysDropped ==
    (Compared /\ KeyInRange) =>
        /\ Len(Diff.rows) = Cardinality(AllKeys)
        /\ \A i \in 1..Len(Diff.rows) : RowKey(Diff.rows[i]) \in AllKeys
        /\ Diff.summary.total_rows = Cardinality(AllKeys)
        /\ Diff.summary.added + Diff.summary.deleted + Diff.summary.modified
             + Diff.summary.unchanged = Cardinality(AllKeys)

C7_Witness ==
    /\ Compared
    /\ KeyInRange
    /\ \E r \in 1..Len(df1.data) : KeyAt(df1, r) = <<>>
    /\ Len(df2.columns) < KeyPos
    /\ Len(df2.data) >= 2
    /\ Len(Diff.rows) = 1

(***************************************************************************)
(* C8: under key-column matching several rows of one table sharing a       *)
(* non-empty key give exactly one diff row for that key, carrying on that  *)
(* table's side the values of the last such row: value for the compare     *)
(* table; for the original table value of a deleted row, old_value of a    *)
(* modified cell, and a value equal under the comparison for a same cell.  *)
(***************************************************************************)
C8_LastOccurrenceWins ==
    (Compared /\ KeyInRange) =>
        \A k \in AllKeys :
            /\ Cardinality(RowsWithKey(Diff.rows, k)) = 1
            /\ LET row == Diff.rows[CHOOSE i \in RowsWithKey(Diff.rows, k) : TRUE]
               IN /\ k \in KeysOf(df2) =>
                        \A c \in 1..MergedColumnCount :
                            row.cells[c].value = TrimmedRow(df2, LastWithKey(df2, k))[c]
                  /\ k \in KeysOf(df1) =>
                        \A c \in 1..MergedColumnCount :
                            LET v1 == TrimmedRow(df1, LastWithKey(df1, k))[c]
                                cell == row.cells[c]
                            IN CASE cell.status = "deleted" -> cell.value = v1
                                 [] cell.status = "modified" -> cell.old_value = Some(v1)
                                 [] cell.status = "same" ->
                                      IF case_sensitive THEN cell.value = v1
                                      ELSE str_lower(cell.value) = str_lower(v1)
                                 [] OTHER -> FALSE

C8_Witness ==
    /\ Compared
    /\ KeyInRange
    /\ \E k \in KeysOf(df1) \cap KeysOf(df2) :
          /\ \E r \in 1..Len(df1.data) :
                /\ KeyAt(df1, r) = k
                /\ r < LastWithKey(df1, k)
                /\ TrimmedRow(df1, r) = TrimmedRow(df2, LastWithKey(df2, k))
                /\ TrimmedRow(df1, r) # TrimmedRow(df1, LastWithKey(df1, k))
          /\ Diff.rows[CHOOSE i \in RowsWithKey(Diff.rows, k) : TRUE].status = "modified"

(***************************************************************************)
(* C9: under key-column matching the diff rows are, in order, one row per  *)
(* distinct non-empty key of A by first appearance in A (also for a key    *)
(* duplicated later in A), then one row per key only in B by first         *)
(* appearance in B; a key only in A is deleted, only in B added, in both   *)
(* modified or same.                                                       *)
(***************************************************************************)
C9_KeyOrder ==
    (Compared /\ KeyInRange) =>
        /\ [i \in 1..Len(Diff.rows) |-> RowKey(Diff.rows[i])]
             = FirstAppearances(df1, Len(df1.data))
               \o Without(FirstAppearances(df2, Len(df2.data)), KeysOf(df1))
        /\ \A i \in 1..Len(Diff.rows) :
              LET k == RowKey(Diff.rows[i])
                  st == Diff.rows[i].status
              IN /\ (k \in KeysOf(df1) /\ k \notin KeysOf(df2)) => st = "deleted"
                 /\ (k \notin KeysOf(df1) /\ k \in KeysOf(df2)) => st = "added"
                 /\ (k \in KeysOf(df1) /\ k \in KeysOf(df2)) => st \in {"modified", "same"}

C9_Witness ==
    /\ Compared
    /\ KeyInRange
    /\ Len(df1.data) = 3
    /\ KeyAt(df1, 1) # <<>>
    /\ KeyAt(df1, 2) # <<>>
    /\ KeyAt(df1, 1) # KeyAt(df1, 2)
    /\ KeyAt(df1, 3) = KeyAt(df1, 1)
    /\ Len(Diff.rows) = 2
    /\ RowKey(Diff.rows[1]) = KeyAt(df1, 1)

C9_WitnessOnlyInCompare ==
    /\ Compared
    /\ KeyInRange
    /\ KeysOf(df1) = {}
    /\ Len(df1.data) >= 1
    /\ Len(Diff.rows) = 2
    /\ Diff.rows[1].status = "added"
    /\ RowKey(Diff.rows[1]) = KeyAt(df2, 1)

(***************************************************************************)
(* Vocabulary of the workbook properties, defined on the request.          *)
(***************************************************************************)
Responded == pc = "responded"
Failed == response[1].error # ""
Body == response[1].body

Original(sname) == IF sname \in DOMAIN sheets1 THEN sheets1[sname] ELSE empty_df
Revised(sname) == IF sname \in DOMAIN sheets2 THEN sheets2[sname] ELSE empty_df
SheetColumnCount(sname) ==
    Max(Len(Original(sname).columns), Len(Revised(sname).columns))

\* the key-column specification as the interface defines it: surrounding
\* blanks ignored, a 1-based decimal integer or one letter A, B, ... in
\* either case; None for anything else
SpecText == IF key_spec = None THEN <<>> ELSE str_strip(key_spec[1])
IsDecimalInteger(t) == Len(t) > 0 /\ \A i \in 1..Len(t) : t[i] \in {"0", "1", "2", "3"}
IsSingleLetter(t) == Len(t) = 1 /\ t[1] \in {"a", "b", "c", "A", "B", "C"}
LetterIndex(c) ==
    CASE c \in {"a", "A"} -> 0
      [] c \in {"b", "B"} -> 1
      [] c \in {"c", "C"} -> 2
ResolvedIndex ==
    IF IsDecimalInteger(SpecText) THEN Some(decimal_value(SpecText) - 1)
    ELSE IF IsSingleLetter(SpecText) THEN Some(LetterIndex(SpecText[1]))
    ELSE None
SheetKeyInRange(sname) ==
    /\ ResolvedIndex # None
    /\ ResolvedIndex[1] >= 0
    /\ ResolvedIndex[1] < SheetColumnCount(sname)

\* the distinct non-empty trimmed keys of a table that has the key column
DistinctKeys(df) ==
    { str_strip(df.data[r][ResolvedIndex[1] + 1]) : r \in 1..Len(df.data) } \ { <<>> }

OnlyStatus(diff, status) ==
    /\ \A i \in 1..Len(diff.rows) : diff.rows[i].status = status
    /\ \A f \in {"added", "deleted", "modified"} \ {status} : diff.summary[f] = 0

C6_KeySpecNeverFails ==
    Responded =>
        /\ ~Failed
        /\ \A sname \in DOMAIN Body.sheets :
              ~SheetKeyInRange(sname) =>
                 Body.sheets[sname] =
                    compare_dataframes(Original(sname), Revised(sname), None,
                                       wb_case_sensitive)

\* the part of C6 that the code satisfies: whenever a result is returned, a
\* sheet whose key column is invalid or out of range is matched by position
C6_DowngradeWhenReturned ==
    (Responded /\ ~Failed) =>
        \A sname \in DOMAIN Body.sheets :
            ~SheetKeyInRange(sname) =>
               Body.sheets[sname] =
                  compare_dataframes(Original(sname), Revised(sname), None,
                                     wb_case_sensitive)

(***************************************************************************)
(* C10: the compared sheets are the union of both workbooks' sheet names   *)
(* when no sheet name or "all" is given, else the named sheet if it is in  *)
(* at least one workbook and no sheet otherwise; sheet_list is that set in *)
(* ascending order, the keys of sheets are the names of sheet_list, and    *)
(* the workbook summary sums the per-sheet added, deleted and modified,    *)
(* with total_differences == added + deleted + modified.                   *)
(***************************************************************************)
SelectedSheets ==
    IF sheet_name = None \/ sheet_name[1] = <<>> \/ sheet_name[1] = <<"a", "l", "l">>
    THEN DOMAIN sheets1 \cup DOMAIN sheets2
    ELSE { sheet_name[1] } \cap (DOMAIN sheets1 \cup DOMAIN sheets2)

RECURSIVE SumOver(_, _, _)
SumOver(names, sheets, field) ==
    IF names = {} THEN 0
    ELSE LET n == CHOOSE x \in names : TRUE
         IN sheets[n].summary[field] + SumOver(names \ {n}, sheets, field)

C10_SheetSelection ==
    (Responded /\ ~Failed) =>
        /\ { Body.sheet_list[i] : i \in 1..Len(Body.sheet_list) } = SelectedSheets
        /\ Len(Body.sheet_list) = Cardinality(SelectedSheets)
        /\ \A i, j \in 1..Len(Body.sheet_list) :
              i < j => str_less(Body.sheet_list[i], Body.sheet_list[j])
        /\ DOMAIN Body.sheets = SelectedSheets
        /\ \A f \in {"added", "deleted", "modified"} :
              Body.summary[f] = SumOver(SelectedSheets, Body.sheets, f)
        /\ Body.summary.total_differences
              = Body.summary.added + Body.summary.deleted + Body.summary.modified

C10_Witness ==
    /\ Responded
    /\ ~Failed
    /\ sheet_name = Some(<<"a", "l", "l">>)
    /\ DOMAIN sheets1 # DOMAIN sheets2
    /\ Len(Body.sheet_list) = 2
    /\ Body.summary.added = 1
    /\ Body.summary.modified = 1
    /\ Body.summary.total_differences = 2
    /\ \E sname \in DOMAIN Body.sheets : Body.sheets[sname].summary.unchanged = 0

C10_WitnessUnknownSheet ==
    /\ Responded
    /\ ~Failed
    /\ sheet_name = Some(<<"T">>)
    /\ DOMAIN sheets1 # {}
    /\ Body.sheet_list = <<>>

(***************************************************************************)
(* C11: under positional matching (no key column, or one out of range)     *)
(* the diff has exactly max(len(A), len(B)) rows and total_rows is that    *)
(* number; row i (0-based) is added iff i >= len(A), deleted iff           *)
(* i >= len(B), and otherwise modified or same.                            *)
(***************************************************************************)
C11_PositionalRows ==
    (Compared /\ ~KeyInRange) =>
        LET n1 == Len(df1.data)
            n2 == Len(df2.data)
            n == IF n1 >= n2 THEN n1 ELSE n2
        IN /\ Len(Diff.rows) = n
           /\ Diff.summary.total_rows = n
           /\ \A i \in 1..Len(Diff.rows) :
                 /\ (Diff.rows[i].status = "added") <=> (i > n1)
                 /\ (Diff.rows[i].status = "deleted") <=> (i > n2)
                 /\ (i <= n1 /\ i <= n2) => Diff.rows[i].status \in {"modified", "same"}

C11_Witness ==
    /\ Compared
    /\ key_column # None
    /\ ~KeyInRange
    /\ Len(df1.data) = 3
    /\ Len(df2.data) = 1
    /\ Len(Diff.rows) = 3
    /\ Diff.rows[1].status = "modified"
    /\ Diff.rows[3].status = "deleted"

C11_WitnessAdded ==
    /\ Compared
    /\ key_column = None
    /\ Len(df1.data) = 1
    /\ Len(df2.data) = 2
    /\ Diff.rows[1].status = "same"
    /\ Diff.rows[2].status = "added"

(***************************************************************************)
(* Vocabulary of cell comparison: the two values behind cell c of diff row *)
(* i when the row is present on both sides, and case folding of the        *)
(* explored cell alphabet.                                                 *)
(***************************************************************************)
OnBothSides(i) == RowInOriginal(i) /\ RowInCompare(i)
OriginalValue(i, c) ==
    IF KeyInRange
    THEN TrimmedRow(df1, LastWithKey(df1, RowKey(Diff.rows[i])))[c]
    ELSE TrimmedCell(df1, i, c)
CompareValue(i, c) ==
    IF KeyInRange
    THEN TrimmedRow(df2, LastWithKey(df2, RowKey(Diff.rows[i])))[c]
    ELSE TrimmedCell(df2, i, c)
CaseFolded(v) == [n \in 1..Len(v) |-> IF v[n] = "A" THEN "a" ELSE v[n]]

(***************************************************************************)
(* C12: for the values v1 (original) and v2 (compare) of a cell of a row   *)
(* present on both sides: with case_sensitive true the cell is same iff    *)
(* v1 == v2, with case_sensitive false iff the case-folded values are      *)
(* equal; two empty cells are always same; the reported value is the       *)
(* unfolded v2 and the old_value of a modified cell is the unfolded v1.    *)
(***************************************************************************)
C12_CellComparison ==
    Compared =>
        \A i \in 1..Len(Diff.rows) :
            OnBothSides(i) =>
                \A c \in 1..MergedColumnCount :
                    LET v1 == OriginalValue(i, c)
                        v2 == CompareValue(i, c)
                        cell == Diff.rows[i].cells[c]
                    IN /\ cell.status \in {"same", "modified"}
                       /\ (cell.status = "same") <=>
                             IF case_sensitive THEN v1 = v2
                             ELSE CaseFolded(v1) = CaseFolded(v2)
                       /\ (v1 = <<>> /\ v2 = <<>>) => cell.status = "same"
                       /\ cell.value = v2
                       /\ cell.status = "modified" => cell.old_value = Some(v1)

C12_Witness ==
    /\ Compared
    /\ ~case_sensitive
    /\ \E i \in 1..Len(Diff.rows) :
          /\ OnBothSides(i)
          /\ \E c \in 1..MergedColumnCount :
                /\ OriginalValue(i, c) = <<"a">>
                /\ CompareValue(i, c) = <<"A">>
                /\ Diff.rows[i].cells[c] =
                      [value |-> <<"A">>, old_value |-> None, status |-> "same"]
          /\ \E c \in 1..MergedColumnCount :
                /\ OriginalValue(i, c) = <<"A">>
                /\ CompareValue(i, c) = <<>>
                /\ Diff.rows[i].cells[c].status = "modified"

C12_WitnessCaseSensitive ==
    /\ Compared
    /\ case_sensitive
    /\ \E i \in 1..Len(Diff.rows) :
          /\ OnBothSides(i)
          /\ \E c \in 1..MergedColumnCount :
                /\ OriginalValue(i, c) = <<"A">>
                /\ CompareValue(i, c) = <<"a">>
                /\ Diff.rows[i].cells[c] =
                      [value |-> <<"a">>, old_value |-> Some(<<"A">>), status |-> "modified"]
          /\ \E c \in 1..MergedColumnCount :
                /\ OriginalValue(i, c) = <<>>
                /\ CompareValue(i, c) = <<>>

(***************************************************************************)
(* Vocabulary of the header merge: the trimmed labels of both tables.      *)
(***************************************************************************)
Labels(df) == [i \in 1..Len(df.columns) |-> str_strip(df.columns[i])]
LongerHeaderLength ==
    IF Len(df1.columns) >= Len(df2.columns) THEN Len(df1.columns) ELSE Len(df2.columns)
ExpectedLabel(i) ==
    IF i <= Len(df2.columns) /\ Labels(df2)[i] # <<>> THEN Labels(df2)[i]
    ELSE IF i <= Len(df1.columns) THEN Labels(df1)[i]
    ELSE <<>>

(***************************************************************************)
(* C13: the merged header row has max(len(headers1), len(headers2))        *)
(* labels; label i is headers2[i] if headers2 has a non-empty label at i,  *)
(* otherwise headers1[i] if headers1 has a label at i, otherwise the empty *)
(* string; it is determined by the two header rows alone, whatever the row *)
(* data, the key column and case_sensitive.                                *)
(***************************************************************************)
C13_MergedHeaders ==
    Compared =>
        /\ Len(Diff.headers) = LongerHeaderLength
        /\ \A i \in 1..Len(Diff.headers) : Diff.headers[i] = ExpectedLabel(i)

C13_Witness ==
    /\ Compared
    /\ KeyInRange
    /\ ~case_sensitive
    /\ Len(df1.data) + Len(df2.data) >= 1
    /\ Len(df1.columns) = 2
    /\ Len(df2.columns) = 2
    /\ Labels(df2)[1] = <<>>
    /\ Labels(df1)[1] = <<"a">>
    /\ Labels(df2)[2] = <<"a">>
    /\ Labels(df1)[2] = <<"b">>
    /\ Diff.headers = << <<"a">>, <<"a">> >>

C13_WitnessShorterCompare ==
    /\ Compared
    /\ Len(df1.columns) = 2
    /\ Len(df2.columns) = 1
    /\ Labels(df1) = << <<"a">>, <<>> >>
    /\ Labels(df2) = << <<"b">> >>
    /\ Diff.headers = << <<"b">>, <<>> >>

====
